---- MODULE Spec2Model ----
(***************************************************************************)
(* Model of the RAC Rust executor (src/src/lib.rs): the expression         *)
(* evaluator eval_expr, the decoder parse_expr and the two-phase executor  *)
(* execute_fast (sequential scalar pass, then a parallel map over rows).   *)
(*                                                                         *)
(* f64 values are modelled as pairs <<n, d>>: a finite value is the        *)
(* reduced fraction n/d with d > 0, and d = 0 marks the IEEE specials      *)
(* (<<1,0>> = +inf, <<-1,0>> = -inf, <<0,0>> = NaN).  Arithmetic on finite *)
(* values is exact (no rounding); the sign of zero is not tracked (the     *)
(* code never observes it: every comparison treats -0.0 as 0.0 and         *)
(* division by zero is guarded).                                           *)
(***************************************************************************)
EXTENDS Integers, Sequences, FiniteSets, TLC

VARIABLES
    pc,           \* position of execute_fast in its body
    entity_name,  \* argument entity_name: &str
    data,         \* argument data: the Python list of row dicts
    var_map,      \* HashMap<String, Variable>
    n_parsed,     \* number of elements of `variables` consumed so far
    exec_order,   \* Vec<String>
    scalar_idx,   \* position of the scalar pass in exec_order (1-based)
    scalars,      \* HashMap<String, f64>
    rows,         \* Vec<HashMap<String, f64>>
    entity_vars,  \* Vec<&Variable>
    task,         \* per row: "pending" | "running" | "done"
    task_idx,     \* per row: position of the task in entity_vars (1-based)
    row_data,     \* per row: the task-local HashMap row_data
    results,      \* the collected Vec, slot i is <<>> until it is written
    py_results,   \* the Python list returned
    ev_pc,        \* evaluator harness: "call" | "returned" | "off"
    ev_expr,      \* evaluator harness: argument expr
    ev_scalars,   \* evaluator harness: argument scalars
    ev_row,       \* evaluator harness: argument row
    ev_result,    \* evaluator harness: returned f64
    ev_trace      \* evaluator harness: positions of the nodes evaluated, in call order

exec_vars == <<pc, entity_name, data, var_map, n_parsed, exec_order, scalar_idx,
               scalars, rows, entity_vars, task, task_idx, row_data, results,
               py_results>>
ev_vars == <<ev_pc, ev_expr, ev_scalars, ev_row, ev_result, ev_trace>>
vars == <<exec_vars, ev_vars>>

(***************************************************************************)
(* Bounds of the model.                                                    *)
(***************************************************************************)
MaxVars == 3    \* length of the `variables` list
MaxOrder == 3   \* length of the `order` list
MaxRows == 2    \* length of the `data` list

(***************************************************************************)
(* f64                                                                     *)
(***************************************************************************)
Zero == <<0, 1>>
One == <<1, 1>>
NaN == <<0, 0>>
INFINITY == <<1, 0>>
NEG_INFINITY == <<-1, 0>>

AbsInt(n) == IF n < 0 THEN -n ELSE n
Sgn(n) == IF n > 0 THEN 1 ELSE IF n < 0 THEN -1 ELSE 0

RECURSIVE Gcd(_, _)
Gcd(a, b) == IF b = 0 THEN a ELSE Gcd(b, a % b)

\* the fraction n/d (d # 0) in lowest terms with a positive denominator
Norm(n, d) ==
    LET g == Gcd(AbsInt(n), AbsInt(d))
        s == IF d < 0 THEN -1 ELSE 1
    IN <<(s * n) \div g, (s * d) \div g>>

IsNaN(x) == x = NaN
IsFinite(x) == x[2] # 0
IsF64(x) ==
    /\ x \in Int \X Nat
    /\ x[2] = 0 => x[1] \in {-1, 0, 1}
    /\ x[2] # 0 => Gcd(AbsInt(x[1]), x[2]) = 1

FNeg(x) == <<-x[1], x[2]>>

FAdd(x, y) ==
    IF IsNaN(x) \/ IsNaN(y) THEN NaN
    ELSE IF IsFinite(x) /\ IsFinite(y) THEN Norm(x[1] * y[2] + y[1] * x[2], x[2] * y[2])
    ELSE IF IsFinite(y) THEN x
    ELSE IF IsFinite(x) THEN y
    ELSE IF x = y THEN x ELSE NaN

FSub(x, y) == FAdd(x, FNeg(y))

FMul(x, y) ==
    IF IsNaN(x) \/ IsNaN(y) THEN NaN
    ELSE IF IsFinite(x) /\ IsFinite(y) THEN Norm(x[1] * y[1], x[2] * y[2])
    ELSE IF Sgn(x[1]) * Sgn(y[1]) = 0 THEN NaN
    ELSE <<Sgn(x[1]) * Sgn(y[1]), 0>>

\* IEEE division, a zero divisor included (x/0 is +-inf, 0/0 is NaN)
FDiv(x, y) ==
    IF IsNaN(x) \/ IsNaN(y) THEN NaN
    ELSE IF IsFinite(x) /\ IsFinite(y) THEN
        IF y[1] # 0 THEN Norm(x[1] * y[2], x[2] * y[1])
        ELSE IF x[1] = 0 THEN NaN ELSE <<Sgn(x[1]), 0>>
    ELSE IF IsFinite(y) THEN <<IF y[1] < 0 THEN -x[1] ELSE x[1], 0>>
    ELSE IF IsFinite(x) THEN Zero
    ELSE NaN

\* x < y; false when either is NaN
FLt(x, y) ==
    IF IsNaN(x) \/ IsNaN(y) THEN FALSE
    ELSE IF IsFinite(x) /\ IsFinite(y) THEN x[1] * y[2] < y[1] * x[2]
    ELSE IF x = y THEN FALSE
    ELSE x = NEG_INFINITY \/ y = INFINITY

\* x <= y; false when either is NaN
FLe(x, y) == ~IsNaN(x) /\ ~IsNaN(y) /\ ~FLt(y, x)

\* x != 0.0 (true of NaN)
FNeZero(x) == x # Zero

FAbs(x) == <<AbsInt(x[1]), x[2]>>

\* f64::round: to the nearest integer, halves away from zero
FRound(x) ==
    IF ~IsFinite(x) THEN x
    ELSE <<Sgn(x[1]) * ((2 * AbsInt(x[1]) + x[2]) \div (2 * x[2])), 1>>

\* f64::min / f64::max: a NaN operand is ignored
FMin(a, b) == IF IsNaN(a) THEN b ELSE IF IsNaN(b) THEN a ELSE IF FLt(b, a) THEN b ELSE a
FMax(a, b) == IF IsNaN(a) THEN b ELSE IF IsNaN(b) THEN a ELSE IF FLt(a, b) THEN b ELSE a

\* x < 1e-10 for x >= 0, as  n * 10^5 * 10^5 < d  without leaving 32 bits
LtEpsilon(x) == IsFinite(x) /\ AbsInt(x[1]) * 100000 <= (x[2] - 1) \div 100000

(***************************************************************************)
(* HashMap<String, f64>                                                    *)
(***************************************************************************)
EmptyMap == << >>
Insert(m, k, v) == [x \in DOMAIN m \cup {k} |-> IF x = k THEN v ELSE m[x]]

(***************************************************************************)
(* enum Expr, as records:                                                  *)
(*   [tag |-> "Literal", value]            [tag |-> "Var", name]           *)
(*   [tag |-> "BinOp", op, left, right]    [tag |-> "Call", func, args]    *)
(*   [tag |-> "Cond", cond, then_expr, else_expr]                          *)
(***************************************************************************)
Literal(v) == [tag |-> "Literal", value |-> v]
Var(n) == [tag |-> "Var", name |-> n]
BinOp(o, l, r) == [tag |-> "BinOp", op |-> o, left |-> l, right |-> r]
Call(f, a) == [tag |-> "Call", func |-> f, args |-> a]
Cond(c, t, e) == [tag |-> "Cond", cond |-> c, then_expr |-> t, else_expr |-> e]

(***************************************************************************)
(* eval_expr                                                               *)
(***************************************************************************)
\* mutant of lookup: the scalar binding is consulted before the row binding
lookup_scalar_first(name, scalars_, row) ==
    IF name \in DOMAIN scalars_ THEN scalars_[name]
    ELSE IF name \in DOMAIN row THEN row[name]
    ELSE Zero

\* Expr::Var(name): the row binding, else the scalar binding, else 0.0
lookup(name, scalars_, row) ==
    IF name \in DOMAIN row THEN row[name]
    ELSE IF name \in DOMAIN scalars_ THEN scalars_[name]
    ELSE Zero

\* mutant of div: the division is not guarded
div_unguarded(l, r) == FDiv(l, r)

\* "/" => if r != 0.0 { l / r } else { 0.0 }
div(l, r) == IF FNeZero(r) THEN FDiv(l, r) ELSE Zero

\* match op.as_str() { ... }
binop(op, l, r) ==
    CASE op = "+" -> FAdd(l, r)
      [] op = "-" -> FSub(l, r)
      [] op = "*" -> FMul(l, r)
      [] op = "/" -> div(l, r)
      [] op = ">" -> IF FLt(r, l) THEN One ELSE Zero
      [] op = ">=" -> IF FLe(r, l) THEN One ELSE Zero
      [] op = "<" -> IF FLt(l, r) THEN One ELSE Zero
      [] op = "<=" -> IF FLe(l, r) THEN One ELSE Zero
      [] op = "==" -> IF LtEpsilon(FAbs(FSub(l, r))) THEN One ELSE Zero
      [] OTHER -> Zero

RECURSIVE fold_min(_, _, _)
\* arg_vals.iter().cloned().fold(acc, f64::min), from position i
fold_min(acc, arg_vals, i) ==
    IF i > Len(arg_vals) THEN acc ELSE fold_min(FMin(acc, arg_vals[i]), arg_vals, i + 1)

RECURSIVE fold_max(_, _, _)
\* arg_vals.iter().cloned().fold(acc, f64::max), from position i
fold_max(acc, arg_vals, i) ==
    IF i > Len(arg_vals) THEN acc ELSE fold_max(FMax(acc, arg_vals[i]), arg_vals, i + 1)

\* match func.as_str() { ... }
call(func, arg_vals) ==
    CASE func = "min" -> fold_min(INFINITY, arg_vals, 1)
      [] func = "max" -> fold_max(NEG_INFINITY, arg_vals, 1)
      [] func = "abs" -> IF Len(arg_vals) > 0 THEN FAbs(arg_vals[1]) ELSE Zero
      [] func = "round" -> IF Len(arg_vals) > 0 THEN FRound(arg_vals[1]) ELSE Zero
      [] OTHER -> Zero

\* mutant of truthy: only 1.0 counts as true
truthy_only_one(c) == c = One

\* if c != 0.0
truthy(c) == FNeZero(c)

RECURSIVE Eval(_, _, _, _)
RECURSIVE EvalArgs(_, _, _, _, _)
\* eval_expr on the node at position pos (the path of child indices from the
\* root): its value, and the positions of the nodes eval_expr is called on, in
\* call order
Eval(expr, scalars_, row, pos) ==
    CASE expr.tag = "Literal" -> [val |-> expr.value, trace |-> <<pos>>]
      [] expr.tag = "Var" -> [val |-> lookup(expr.name, scalars_, row), trace |-> <<pos>>]
      [] expr.tag = "BinOp" ->
            LET l == Eval(expr.left, scalars_, row, Append(pos, 1))
                r == Eval(expr.right, scalars_, row, Append(pos, 2))
            IN [val |-> binop(expr.op, l.val, r.val),
                trace |-> <<pos>> \o l.trace \o r.trace]
      [] expr.tag = "Call" ->
            LET a == EvalArgs(expr.args, scalars_, row, pos, 1)
            IN [val |-> call(expr.func, a.vals), trace |-> <<pos>> \o a.trace]
      [] expr.tag = "Cond" ->
            LET c == Eval(expr.cond, scalars_, row, Append(pos, 1))
                b == IF truthy(c.val)
                     THEN Eval(expr.then_expr, scalars_, row, Append(pos, 2))
                     ELSE Eval(expr.else_expr, scalars_, row, Append(pos, 3))
            IN [val |-> b.val, trace |-> <<pos>> \o c.trace \o b.trace]

\* args.iter().map(|a| eval_expr(a, scalars, row)).collect(), from position i
EvalArgs(args, scalars_, row, pos, i) ==
    IF i > Len(args) THEN [vals |-> << >>, trace |-> << >>]
    ELSE LET h == Eval(args[i], scalars_, row, Append(pos, i))
             t == EvalArgs(args, scalars_, row, pos, i + 1)
         IN [vals |-> <<h.val>> \o t.vals, trace |-> h.trace \o t.trace]

eval_expr(expr, scalars_, row) == Eval(expr, scalars_, row, << >>).val

(***************************************************************************)
(* parse_expr: a Python dict [type |-> ..., ...] decoded to an Expr.  Only *)
(* dicts that hold the keys their type needs are modelled (a missing key   *)
(* makes parse_expr, and execute_fast, return Err).                        *)
(***************************************************************************)
RECURSIVE parse_expr(_)
parse_expr(obj) ==
    CASE obj.type = "literal" -> Literal(obj.value)
      [] obj.type = "var" -> Var(obj.path)
      [] obj.type = "binop" -> BinOp(obj.op, parse_expr(obj.left), parse_expr(obj.right))
      [] obj.type = "call" ->
            Call(obj.func, [i \in 1..Len(obj.args) |-> parse_expr(obj.args[i])])
      [] obj.type = "cond" ->
            Cond(parse_expr(obj.cond), parse_expr(obj.then), parse_expr(obj.else))
      [] OTHER -> Literal(Zero)

(***************************************************************************)
(* Python objects at the boundary.  A value is [py |-> type, ...]; a dict  *)
(* is a function from its keys.                                            *)
(***************************************************************************)
PyFloat(x) == [py |-> "float", v |-> x]
PyStr(t) == [py |-> "str", s |-> t]
PyNone == [py |-> "none", s |-> ""]
PyInt7 == [py |-> "int", s |-> ""]

PyLit(x) == [type |-> "literal", value |-> x]
PyVar(n) == [type |-> "var", path |-> n]
PyBin(o, l, r) == [type |-> "binop", op |-> o, left |-> l, right |-> r]
PyCond(c, t, e) == [type |-> "cond", cond |-> c, then |-> t, else |-> e]
PyUnknown == [type |-> "lambda"]

\* var_obj.get_item("entity")?.extract().ok(): Some(s) for a str, None otherwise
extract_entity(obj) == IF obj.py = "str" THEN <<obj.s>> ELSE << >>

\* the body of the loop over `variables`: one Variable from one var_obj
parse_variable(var_obj) ==
    [path |-> var_obj.path,
     entity |-> extract_entity(var_obj.entity),
     expr |-> parse_expr(var_obj.expr)]

\* one row dict to a HashMap: the fields whose value extracts as f64
parse_row(dict) ==
    [k \in {f \in DOMAIN dict : dict[f].py = "float"} |-> dict[k].v]

\* one result row to a Python dict
to_pydict(row) == [k \in DOMAIN row |-> PyFloat(row[k])]

(***************************************************************************)
(* The inputs of execute_fast.  entity_name and data are fixed when the    *)
(* call starts; the lists `variables` and `order` are read as the code     *)
(* iterates them, so their elements are chosen where they are consumed.    *)
(* Only inputs on which every `?` and the unwrap() of line 153 succeed are *)
(* modelled: each var_obj holds path, entity and expr, and each row is a   *)
(* dict with string keys.  A path of Paths that was never registered is an *)
(* identifier of the order that the registry does not know.                *)
(***************************************************************************)
EntityNames == {"person", "household"}
Paths == {"t", "a", "b"}

VarObjs ==
    {[path |-> "t", entity |-> PyNone, expr |-> PyLit(<<18, 1>>)],
     [path |-> "a", entity |-> PyStr("person"),
      expr |-> PyBin(">=", PyVar("age"), PyVar("t"))],
     [path |-> "a", entity |-> PyInt7,
      expr |-> PyBin("+", PyVar("t"), PyVar("age"))],
     [path |-> "b", entity |-> PyStr("person"),
      expr |-> PyCond(PyVar("a"), PyBin("/", PyVar("age"), PyVar("t")), PyUnknown)],
     [path |-> "b", entity |-> PyStr("household"),
      expr |-> PyBin("*", PyVar("a"), PyLit(<<2, 1>>))]}

RowObjs ==
    {[f \in {"age"} |-> PyFloat(<<19, 1>>)],
     [f \in {"age", "a", "t", "note"} |->
        CASE f = "age" -> PyFloat(<<18, 1>>)
          [] f = "a" -> PyFloat(<<5, 1>>)
          [] f = "t" -> PyFloat(<<20, 1>>)
          [] f = "note" -> [py |-> "str", v |-> Zero]]}

SeqsUpTo(S, n) == UNION {[1..k -> S] : k \in 0..n}
OrderLists == SeqsUpTo(Paths, MaxOrder)
DataLists == SeqsUpTo(RowObjs, MaxRows)

(***************************************************************************)
(* execute_fast                                                            *)
(***************************************************************************)
\* mutant of scalar_row_bindings: the scalar pass sees the first row of the data
scalar_row_first_row == IF Len(data) > 0 THEN parse_row(data[1]) ELSE EmptyMap

\* the row bindings of the scalar pass: &HashMap::new()
scalar_row_bindings == EmptyMap

\* mutant of scalar_step: the entity tag is not tested
scalar_step_any_entity(scalars_, var_map_, path) ==
    IF path \in DOMAIN var_map_
    THEN Insert(scalars_, path,
                eval_expr(var_map_[path].expr, scalars_, scalar_row_bindings))
    ELSE scalars_

\* the body of the scalar loop for one path of exec_order
scalar_step(scalars_, var_map_, path) ==
    IF path \in DOMAIN var_map_ /\ var_map_[path].entity = << >>
    THEN Insert(scalars_, path,
                eval_expr(var_map_[path].expr, scalars_, scalar_row_bindings))
    ELSE scalars_

\* mutant of scalar_pass_done: the loop stops one element early
scalar_pass_done_early(idx, order) == idx >= Len(order)

\* for path in &exec_order: the loop has walked all of exec_order
scalar_pass_done(idx, order) == idx > Len(order)

\* mutant of is_entity_var: any entity tag is accepted
is_entity_var_any_tag(v, name) == v.entity # << >>

\* v.entity.as_deref() == Some(entity_name)
is_entity_var(v, name) == v.entity = <<name>>

\* mutant of entity_vars_of: the plan does not keep the order of exec_order
entity_vars_of_reversed(order, var_map_, name) ==
    LET present == SelectSeq(order, LAMBDA p : p \in DOMAIN var_map_)
        found == [k \in 1..Len(present) |-> var_map_[present[k]]]
        kept == SelectSeq(found, LAMBDA v : v.entity = <<name>>)
    IN [k \in 1..Len(kept) |-> kept[Len(kept) + 1 - k]]

\* exec_order.iter().filter_map(|path| var_map.get(path)).filter(...).collect()
entity_vars_of(order, var_map_, name) ==
    LET present == SelectSeq(order, LAMBDA p : p \in DOMAIN var_map_)
        found == [k \in 1..Len(present) |-> var_map_[present[k]]]
    IN SelectSeq(found, LAMBDA v : is_entity_var(v, name))

\* mutant of row_clone: every task works on the bindings of the first row
row_clone_first(rows_, i) == rows_[1]

\* let mut row_data = row.clone(), in the task of row i
row_clone(rows_, i) == rows_[i]

\* the body of the loop over entity_vars in one task: evaluate, then insert
row_step(row_data_, scalars_, var) ==
    Insert(row_data_, var.path, eval_expr(var.expr, scalars_, row_data_))

\* mutant of collect_slot: results are gathered in completion order
collect_slot_completion_order(i, results_) ==
    CHOOSE k \in DOMAIN results_ :
        /\ results_[k] = << >>
        /\ \A j \in 1..(k - 1) : results_[j] # << >>

\* rayon's indexed collect: the result of item i is written to slot i
collect_slot(i, results_) == i

Init ==
    /\ pc = "parse_vars"
    /\ entity_name \in EntityNames
    /\ data \in DataLists
    /\ var_map = EmptyMap
    /\ n_parsed = 0
    /\ exec_order = << >>
    /\ scalar_idx = 0
    /\ scalars = EmptyMap
    /\ rows = << >>
    /\ entity_vars = << >>
    /\ task = << >> /\ task_idx = << >> /\ row_data = << >>
    /\ results = << >>
    /\ py_results = << >>
    /\ ev_pc = "off" /\ ev_expr = Literal(Zero) /\ ev_scalars = EmptyMap
    /\ ev_row = EmptyMap /\ ev_result = Zero /\ ev_trace = << >>

\* for var_obj in variables.iter() { ... var_map.insert(...) }: one iteration
ParseVariable ==
    /\ pc = "parse_vars"
    /\ n_parsed < MaxVars
    /\ \E var_obj \in VarObjs :
          var_map' = Insert(var_map, var_obj.path, parse_variable(var_obj))
    /\ n_parsed' = n_parsed + 1
    /\ UNCHANGED <<pc, entity_name, data, exec_order, scalar_idx, scalars, rows,
                   entity_vars, task, task_idx, row_data, results, py_results,
                   ev_vars>>

\* the list `variables` is exhausted; exec_order is extracted from `order`
GetExecOrder ==
    /\ pc = "parse_vars"
    /\ \E order \in OrderLists : exec_order' = order
    /\ n_parsed' = 0
    /\ scalar_idx' = 1
    /\ pc' = "scalars"
    /\ UNCHANGED <<entity_name, data, var_map, scalars, rows, entity_vars, task,
                   task_idx, row_data, results, py_results, ev_vars>>

\* for path in &exec_order { ... }: one iteration
ScalarStep ==
    /\ pc = "scalars"
    /\ ~scalar_pass_done(scalar_idx, exec_order)
    /\ scalars' = scalar_step(scalars, var_map, exec_order[scalar_idx])
    /\ scalar_idx' = scalar_idx + 1
    /\ UNCHANGED <<pc, entity_name, data, var_map, n_parsed, exec_order, rows,
                   entity_vars, task, task_idx, row_data, results, py_results,
                   ev_vars>>

\* the scalar loop has ended; the input data is parsed
ParseRows ==
    /\ pc = "scalars"
    /\ scalar_pass_done(scalar_idx, exec_order)
    /\ rows' = [i \in 1..Len(data) |-> parse_row(data[i])]
    /\ pc' = "plan"
    /\ UNCHANGED <<entity_name, data, var_map, n_parsed, exec_order, scalar_idx,
                   scalars, entity_vars, task, task_idx, row_data, results,
                   py_results, ev_vars>>

\* entity_vars is built and rows.par_iter().map(...) hands one task per row
\* to the pool
GetEntityVars ==
    /\ pc = "plan"
    /\ entity_vars' = entity_vars_of(exec_order, var_map, entity_name)
    /\ task' = [i \in 1..Len(rows) |-> "pending"]
    /\ task_idx' = [i \in 1..Len(rows) |-> 0]
    /\ row_data' = [i \in 1..Len(rows) |-> EmptyMap]
    /\ results' = [i \in 1..Len(rows) |-> << >>]
    /\ pc' = "rows"
    /\ UNCHANGED <<entity_name, data, var_map, n_parsed, exec_order, scalar_idx,
                   scalars, rows, py_results, ev_vars>>

\* a worker picks up row i: let mut row_data = row.clone()
TaskStart(i) ==
    /\ pc = "rows"
    /\ task[i] = "pending"
    /\ row_data' = [row_data EXCEPT ![i] = row_clone(rows, i)]
    /\ task' = [task EXCEPT ![i] = "running"]
    /\ task_idx' = [task_idx EXCEPT ![i] = 1]
    /\ UNCHANGED <<pc, entity_name, data, var_map, n_parsed, exec_order,
                   scalar_idx, scalars, rows, entity_vars, results, py_results,
                   ev_vars>>

\* for var in &entity_vars { ... }: one iteration in the task of row i
TaskStep(i) ==
    /\ pc = "rows"
    /\ task[i] = "running"
    /\ task_idx[i] <= Len(entity_vars)
    /\ row_data' = [row_data EXCEPT
                      ![i] = row_step(@, scalars, entity_vars[task_idx[i]])]
    /\ task_idx' = [task_idx EXCEPT ![i] = @ + 1]
    /\ UNCHANGED <<pc, entity_name, data, var_map, n_parsed, exec_order,
                   scalar_idx, scalars, rows, entity_vars, task, results,
                   py_results, ev_vars>>

\* the task of row i returns row_data, which is moved into the collected Vec
TaskFinish(i) ==
    /\ pc = "rows"
    /\ task[i] = "running"
    /\ task_idx[i] > Len(entity_vars)
    /\ results' = [results EXCEPT ![collect_slot(i, results)] = <<row_data[i]>>]
    /\ row_data' = [row_data EXCEPT ![i] = EmptyMap]
    /\ task' = [task EXCEPT ![i] = "done"]
    /\ UNCHANGED <<pc, entity_name, data, var_map, n_parsed, exec_order,
                   scalar_idx, scalars, rows, entity_vars, task_idx, py_results,
                   ev_vars>>

\* collect() returns once every task has returned
Collect ==
    /\ pc = "rows"
    /\ \A i \in DOMAIN task : task[i] = "done"
    /\ pc' = "convert"
    /\ UNCHANGED <<entity_name, data, var_map, n_parsed, exec_order, scalar_idx,
                   scalars, rows, entity_vars, task, task_idx, row_data, results,
                   py_results, ev_vars>>

\* for row in results { ... py_results.append(dict) }: one iteration
ConvertRow ==
    /\ pc = "convert"
    /\ Len(py_results) < Len(results)
    /\ py_results' = Append(py_results, to_pydict(results[Len(py_results) + 1][1]))
    /\ UNCHANGED <<pc, entity_name, data, var_map, n_parsed, exec_order,
                   scalar_idx, scalars, rows, entity_vars, task, task_idx,
                   row_data, results, ev_vars>>

\* Ok(py_results.into())
Return ==
    /\ pc = "convert"
    /\ Len(py_results) = Len(results)
    /\ pc' = "returned"
    /\ UNCHANGED <<entity_name, data, var_map, n_parsed, exec_order, scalar_idx,
                   scalars, rows, entity_vars, task, task_idx, row_data, results,
                   py_results, ev_vars>>

Next ==
    \/ ParseVariable
    \/ GetExecOrder
    \/ ScalarStep
    \/ ParseRows
    \/ GetEntityVars
    \/ \E i \in DOMAIN task : TaskStart(i)
    \/ \E i \in DOMAIN task : TaskStep(i)
    \/ \E i \in DOMAIN task : TaskFinish(i)
    \/ Collect
    \/ ConvertRow
    \/ Return

Spec == Init /\ [][Next]_vars

(***************************************************************************)
(* Properties of execute_fast (checked under Spec).                        *)
(***************************************************************************)
Range(f) == {f[k] : k \in DOMAIN f}
RowPhases == {"plan", "rows", "convert", "returned"}

\* the identifiers of exec_order that are registered with no entity tag
ScalarIds ==
    {p \in Range(exec_order) : p \in DOMAIN var_map /\ var_map[p].entity = << >>}

\* the positions of exec_order whose variable carries the requested tag
PlanPositions ==
    {k \in DOMAIN exec_order :
        /\ exec_order[k] \in DOMAIN var_map
        /\ var_map[exec_order[k]].entity = <<entity_name>>}
PlanIds == {exec_order[k] : k \in PlanPositions}

\* the j-th smallest element of the set of positions P
NthPosition(P, j) == CHOOSE k \in P : Cardinality({m \in P : m <= k}) = j

RECURSIVE RunPlan(_, _, _, _, _)
\* the bindings of one row after the variables k..upto of the plan have been
\* evaluated in sequence, each against the bindings left by the one before
RunPlan(bindings, scalars_, plan, k, upto) ==
    IF k > upto THEN bindings
    ELSE RunPlan(Insert(bindings, plan[k].path,
                        eval_expr(plan[k].expr, scalars_, bindings)),
                 scalars_, plan, k + 1, upto)

\* the result of row i computed on its own, from its input fields alone
RowResult(i) ==
    RunPlan(parse_row(data[i]), scalars, entity_vars, 1, Len(entity_vars))

RECURSIVE ScalarsOf(_, _, _, _)
\* the scalar bindings as a function of the registry and the order alone
ScalarsOf(acc, registry, order, k) ==
    IF k > Len(order) THEN acc
    ELSE LET p == order[k]
         IN ScalarsOf(IF p \in DOMAIN registry /\ registry[p].entity = << >>
                      THEN Insert(acc, p, eval_expr(registry[p].expr, acc, EmptyMap))
                      ELSE acc,
                      registry, order, k + 1)

\* C1: the scalar pass has walked the whole execution order before any row
\* task exists, and no step taken from then on changes the scalar bindings.
C1_ScalarsFrozenBeforeRows ==
    [][/\ pc' \in RowPhases => scalar_idx' > Len(exec_order')
       /\ pc \in RowPhases => scalars' = scalars]_vars

C1_Witness ==
    /\ pc = "rows"
    /\ \E i \in DOMAIN task : task[i] = "running" /\ task_idx[i] > 1
    /\ \E i \in DOMAIN task : task[i] = "pending"
    /\ Cardinality(DOMAIN scalars) = 2

\* C2: slot i of the collected results only ever holds the result of input
\* row i, whatever the order in which the tasks complete, and the returned
\* list has one row per input row, row i being the result of input row i.
C2_OutputIndexAligned ==
    /\ \A i \in DOMAIN results : results[i] # << >> => results[i] = <<RowResult(i)>>
    /\ pc = "returned" =>
          /\ Len(py_results) = Len(data)
          /\ \A i \in DOMAIN data : py_results[i] = to_pydict(RowResult(i))

\* row 2 completed while row 1 is still being computed, and their results differ
C2_Witness ==
    /\ pc = "rows"
    /\ Len(data) = 2
    /\ task[2] = "done" /\ task[1] = "running"
    /\ entity_vars # << >>
    /\ results[2] # <<RowResult(1)>>

\* C3: a step never changes the bindings of a task other than the one that
\* takes it, and the bindings of a running task are those obtained from its
\* own input row, the scalar bindings and the plan alone.
C3_RowIndependence ==
    [][\A i \in DOMAIN task :
          /\ (task[i] = "running" /\ task'[i] = "running" /\ task_idx'[i] = task_idx[i])
                => row_data'[i] = row_data[i]
          /\ task'[i] = "running"
                => row_data'[i] = RunPlan(rows'[i], scalars', entity_vars', 1,
                                          task_idx'[i] - 1)]_vars

\* two tasks are under way at once, on different rows
C3_Witness ==
    /\ pc = "rows"
    /\ Len(rows) = 2
    /\ task[1] = "running" /\ task[2] = "running"
    /\ task_idx[1] > 1 /\ task_idx[2] > 1
    /\ row_data[1] # row_data[2]
    /\ rows[1] # rows[2]

\* C4 as stated: every output row is the input row, each field with its input
\* value, plus one additional field per variable of the plan, and nothing else.
C4_Original ==
    pc = "returned" =>
        \A i \in DOMAIN data :
            LET input == parse_row(data[i])
                out == py_results[i]
            IN /\ DOMAIN out = DOMAIN input \cup PlanIds
               /\ Cardinality(DOMAIN out) = Cardinality(DOMAIN input) + Cardinality(PlanIds)
               /\ \A f \in DOMAIN input : out[f] = PyFloat(input[f])

\* C4 (amended): the fields of every output row are the numeric input
\* fields together with the identifiers of the plan; an input field that no
\* variable of the plan names keeps its input value, a field named by a
\* variable of the plan holds the computed value (an input field of that name
\* is replaced); variables of another tag and scalar variables add no field.
C4_OutputFields ==
    pc = "returned" =>
        \A i \in DOMAIN data :
            LET input == parse_row(data[i])
                out == py_results[i]
            IN /\ DOMAIN out = DOMAIN input \cup PlanIds
               /\ \A f \in DOMAIN input \ PlanIds : out[f] = PyFloat(input[f])
               /\ \A p \in PlanIds : out[p] = PyFloat(RowResult(i)[p])

\* the order holds a scalar, a variable of the requested tag and one of another
\* tag; a row has an input field named like the variable of the requested tag
C4_Witness ==
    /\ pc = "returned"
    /\ ScalarIds # {}
    /\ PlanIds # {}
    /\ \E p \in Range(exec_order) :
          p \in DOMAIN var_map /\ var_map[p].entity \notin {<< >>, <<entity_name>>}
    /\ \E i \in DOMAIN data : \E p \in PlanIds :
          /\ p \in DOMAIN parse_row(data[i])
          /\ py_results[i][p] # PyFloat(parse_row(data[i])[p])

\* C5: every step of the scalar pass takes the next identifier of the order;
\* a registered variable with no entity tag is evaluated against the scalar
\* bindings so far with empty row bindings and inserted, any other identifier
\* leaves the bindings unchanged; after the pass the keys of the scalar
\* bindings are the registered untagged identifiers of the order.
C5_ScalarPass ==
    [][/\ (pc = "scalars" /\ pc' = "scalars") =>
             LET p == exec_order[scalar_idx]
             IN /\ scalar_idx' = scalar_idx + 1
                /\ IF p \in DOMAIN var_map /\ var_map[p].entity = << >>
                   THEN scalars' = Insert(scalars, p,
                                          eval_expr(var_map[p].expr, scalars, EmptyMap))
                   ELSE scalars' = scalars
       /\ pc' \in RowPhases => DOMAIN scalars' = ScalarIds']_vars

\* the pass is over; the order held an unregistered identifier, a tagged
\* variable and a scalar variable
C5_Witness ==
    /\ pc = "plan"
    /\ Len(exec_order) = 3
    /\ \E p \in Range(exec_order) : p \notin DOMAIN var_map
    /\ \E p \in Range(exec_order) : p \in DOMAIN var_map /\ var_map[p].entity # << >>
    /\ Cardinality(DOMAIN scalars) = 1

\* C9: the plan is the order restricted to the variables of the requested
\* tag, relative order kept; a step of a task evaluates the next variable of
\* the plan against the scalar bindings and the task's bindings so far and
\* inserts the result before the next one is evaluated.
C9_PlanOrder ==
    [][/\ pc' \in {"rows", "convert", "returned"} =>
             /\ Len(entity_vars') = Cardinality(PlanPositions')
             /\ \A j \in DOMAIN entity_vars' :
                   entity_vars'[j] = var_map'[exec_order'[NthPosition(PlanPositions', j)]]
       /\ \A i \in DOMAIN task :
             (task[i] = "running" /\ task_idx'[i] = task_idx[i] + 1) =>
                LET v == entity_vars[task_idx[i]]
                IN row_data'[i] = Insert(row_data[i], v.path,
                                         eval_expr(v.expr, scalars, row_data[i]))]_vars

\* the second variable of the plan has been evaluated in a task, and its value
\* is not the one it has when evaluated against the task's input row
C9_Witness ==
    /\ pc = "rows"
    /\ Len(entity_vars) = 2
    /\ entity_vars[1].path # entity_vars[2].path
    /\ \E i \in DOMAIN task :
          /\ task[i] = "running" /\ task_idx[i] = 3
          /\ row_data[i][entity_vars[2].path]
                # eval_expr(entity_vars[2].expr, scalars, rows[i])

\* C10: the scalar bindings are a function of the registry and of the order
\* walked so far: neither the data nor the requested tag enters them.
C10_ScalarsIndependentOfData ==
    /\ pc = "scalars" =>
          scalars = ScalarsOf(EmptyMap, var_map, SubSeq(exec_order, 1, scalar_idx - 1), 1)
    /\ pc \in RowPhases => scalars = ScalarsOf(EmptyMap, var_map, exec_order, 1)

\* a scalar definition refers to a scalar computed before it and to an input
\* field that every row holds: the first resolves to its value, the second to 0.0
C10_Witness ==
    /\ pc = "rows"
    /\ Len(data) > 0
    /\ \A i \in DOMAIN rows : "age" \in DOMAIN rows[i] /\ rows[i]["age"] # Zero
    /\ {"t", "a"} \subseteq DOMAIN scalars
    /\ var_map["a"].expr = BinOp("+", Var("t"), Var("age"))
    /\ scalars["t"] # Zero
    /\ scalars["a"] = scalars["t"]

(***************************************************************************)
(* Evaluator harness: one call of eval_expr on an expression and a pair of *)
(* binding maps drawn from the pools below.                                *)
(***************************************************************************)
EvNames == {"x", "y", "missing"}
EvLiterals == {Zero, One, <<-2, 1>>, <<5, 2>>}
EvOps == {"+", "-", "*", "/", ">", ">=", "<", "<=", "==", "%"}
EvFuncs == {"min", "max", "abs", "round", "sqrt"}
KnownOps == {"+", "-", "*", "/", ">", ">=", "<", "<=", "=="}
KnownFuncs == {"min", "max", "abs", "round"}

EvScalarValue == [n \in {"x", "y"} |-> IF n = "x" THEN <<3, 1>> ELSE Zero]
EvRowValue == [n \in {"x", "y"} |-> IF n = "x" THEN Zero ELSE <<-2, 1>>]
EvScalarMaps == {[n \in S |-> EvScalarValue[n]] : S \in SUBSET {"x", "y"}}
EvRowMaps == {[n \in S |-> EvRowValue[n]] : S \in SUBSET {"x", "y"}}

\* the expressions with one operator over the operands S
Build(S) ==
    {BinOp(o, l, r) : o \in EvOps, l \in S, r \in S}
    \cup {Call(f, a) : f \in EvFuncs, a \in {<< >>} \cup {<<e>> : e \in S} \cup (S \X S)}
    \cup {Cond(c, t, e) : c \in S, t \in S, e \in S}

EvAtoms == {Literal(v) : v \in EvLiterals} \cup {Var(n) : n \in EvNames}
\* operands of the two-operator expressions: atoms, +-inf, NaN and a zero divisor
EvOperands ==
    {Literal(Zero), Literal(<<5, 2>>), Var("x"), Var("y"),
     Call("min", << >>), Call("max", << >>),
     BinOp("-", Call("min", << >>), Call("min", << >>)),
     BinOp("/", Literal(One), Var("y")),
     Cond(Var("x"), Literal(One), Var("y"))}
EvExprs == EvAtoms \cup Build(EvAtoms) \cup Build(EvOperands)

ExecOff ==
    /\ pc = "off" /\ entity_name = "" /\ data = << >> /\ var_map = << >>
    /\ n_parsed = 0 /\ exec_order = << >> /\ scalar_idx = 0 /\ scalars = << >>
    /\ rows = << >> /\ entity_vars = << >> /\ task = << >> /\ task_idx = << >>
    /\ row_data = << >> /\ results = << >> /\ py_results = << >>

EvInit ==
    /\ ExecOff
    /\ ev_pc = "call"
    /\ ev_expr \in EvExprs
    /\ ev_scalars \in EvScalarMaps
    /\ ev_row \in EvRowMaps
    /\ ev_result = Zero
    /\ ev_trace = << >>

\* eval_expr(&ev_expr, &ev_scalars, &ev_row)
EvalCall ==
    /\ ev_pc = "call"
    /\ ev_result' = Eval(ev_expr, ev_scalars, ev_row, << >>).val
    /\ ev_trace' = Eval(ev_expr, ev_scalars, ev_row, << >>).trace
    /\ ev_pc' = "returned"
    /\ UNCHANGED <<ev_expr, ev_scalars, ev_row, exec_vars>>

EvNext == EvalCall
EvalSpec == EvInit /\ [][EvNext]_vars

(***************************************************************************)
(* Properties of eval_expr (checked under EvalSpec).                       *)
(***************************************************************************)
\* C6: a variable reference yields the row binding when there is one, else
\* the scalar binding when there is one, else 0.0; a name bound in both maps
\* yields the row binding.
C6_LookupOrder ==
    (ev_pc = "returned" /\ ev_expr.tag = "Var") =>
        /\ ev_expr.name \in DOMAIN ev_row => ev_result = ev_row[ev_expr.name]
        /\ (ev_expr.name \notin DOMAIN ev_row /\ ev_expr.name \in DOMAIN ev_scalars)
              => ev_result = ev_scalars[ev_expr.name]
        /\ (ev_expr.name \notin DOMAIN ev_row /\ ev_expr.name \notin DOMAIN ev_scalars)
              => ev_result = Zero

\* a name bound in both maps, to different values
C6_Witness ==
    /\ ev_pc = "returned"
    /\ ev_expr.tag = "Var"
    /\ ev_expr.name \in DOMAIN ev_row \cap DOMAIN ev_scalars
    /\ ev_row[ev_expr.name] # ev_scalars[ev_expr.name]
    /\ ev_result = ev_row[ev_expr.name]

\* C7: every call returns an f64; an unrecognized operator and an
\* unrecognized function yield 0.0; a division whose right operand evaluates
\* to zero yields 0.0 whatever the left operand.
C7_FailSoft ==
    ev_pc = "returned" =>
        /\ IsF64(ev_result)
        /\ (ev_expr.tag = "BinOp" /\ ev_expr.op \notin KnownOps) => ev_result = Zero
        /\ (ev_expr.tag = "Call" /\ ev_expr.func \notin KnownFuncs) => ev_result = Zero
        /\ (/\ ev_expr.tag = "BinOp"
            /\ ev_expr.op = "/"
            /\ eval_expr(ev_expr.right, ev_scalars, ev_row) = Zero) => ev_result = Zero

\* an infinite left operand divided by a right operand that evaluates to zero
C7_Witness ==
    /\ ev_pc = "returned"
    /\ ev_expr.tag = "BinOp"
    /\ ev_expr.op = "/"
    /\ ev_expr.right.tag = "Var"
    /\ eval_expr(ev_expr.right, ev_scalars, ev_row) = Zero
    /\ eval_expr(ev_expr.left, ev_scalars, ev_row) = INFINITY
    /\ ev_result = Zero

\* the positions of the trace that lie in the subtree of child c of the root
Under(c) == {k \in DOMAIN ev_trace : ev_trace[k] # << >> /\ ev_trace[k][1] = c}

\* C8: a conditional evaluates its condition and then one branch only, the
\* then-branch when the condition is not zero and the else-branch when it is
\* zero, and returns the value of that branch.
C8_OneBranch ==
    (ev_pc = "returned" /\ ev_expr.tag = "Cond") =>
        LET c == Eval(ev_expr.cond, ev_scalars, ev_row, <<1>>)
            t == Eval(ev_expr.then_expr, ev_scalars, ev_row, <<2>>)
            e == Eval(ev_expr.else_expr, ev_scalars, ev_row, <<3>>)
        IN /\ c.val # Zero =>
                 /\ ev_trace = <<<< >>>> \o c.trace \o t.trace
                 /\ ev_result = t.val
                 /\ Under(3) = {}
           /\ c.val = Zero =>
                 /\ ev_trace = <<<< >>>> \o c.trace \o e.trace
                 /\ ev_result = e.val
                 /\ Under(2) = {}

\* the condition is neither 0.0 nor 1.0 and the branches differ in value
C8_Witness ==
    /\ ev_pc = "returned"
    /\ ev_expr.tag = "Cond"
    /\ eval_expr(ev_expr.cond, ev_scalars, ev_row) \notin {Zero, One}
    /\ eval_expr(ev_expr.then_expr, ev_scalars, ev_row)
          # eval_expr(ev_expr.else_expr, ev_scalars, ev_row)
    /\ Under(2) # {}
    /\ Under(3) = {}
    /\ ev_result = eval_expr(ev_expr.then_expr, ev_scalars, ev_row)

====
